---- MODULE Spec2Model ----
(***************************************************************************)
(* Remote GUI automation control loop of the clerk package:                *)
(*   - the gui_automation wrapper (device allocation, transport, cleanup), *)
(*   - try_actions (ordered fallback list of UI actions),                  *)
(*   - ensure_state_with_vision (oracle classification with one recheck),  *)
(*   - create_issue_and_wait (operator escalation with a deadline),        *)
(*   - maybe_engage_operator_ui_action (the USE_OPERATOR integration).     *)
(* Each component has its own specification; the components share no      *)
(* state, so a specification leaves the other components' variables       *)
(* untouched.                                                              *)
(***************************************************************************)
EXTENDS Integers, Sequences, FiniteSets, TLC

VARIABLES
    run,        \* per wrapper invocation: control point, counters, outcome
    global_ws,  \* gui_automation.global_ws: 0 is None, else a connection id
    wsState,    \* state of every connection ever returned by connect()
    environ,    \* os.environ entries the wrapper touches (0 = absent)
    devices,    \* device ids currently allocated at the device manager
    ta,         \* try_actions call frame
    es,         \* ensure_state_with_vision call frame
    cs,         \* Vision.classify_state call frame
    op,         \* create_issue_and_wait call frame
    issue,      \* the operator queue's record of the issue (server side)
    me,         \* maybe_engage_operator_ui_action call frame
    cc,         \* one CourseCorrectorV1 instance and its call in progress
    oc,         \* one _try_openai_call in progress, and find_target around it
    fa          \* one _format_action_string call: its argument and result

vars == <<run, global_ws, wsState, environ, devices, ta, es, cs, op, issue, me, cc, oc, fa>>

sessionVars == <<run, global_ws, wsState, environ, devices>>
actionVars == <<ta>>
stateVars == <<es, cs>>
operatorVars == <<op, issue, me>>
recoveryVars == <<cc>>
oracleVars == <<oc>>
formatVars == <<fa>>

otherThanSession == <<formatVars, oracleVars, actionVars, stateVars, operatorVars, recoveryVars>>
otherThanActions == <<formatVars, oracleVars, sessionVars, stateVars, operatorVars, recoveryVars>>
otherThanState == <<formatVars, oracleVars, sessionVars, actionVars, operatorVars, recoveryVars>>
otherThanOperator == <<formatVars, oracleVars, sessionVars, actionVars, stateVars, recoveryVars>>
otherThanRecovery == <<formatVars, sessionVars, actionVars, stateVars, operatorVars, oracleVars>>
otherThanFormat == <<sessionVars, actionVars, stateVars, operatorVars, recoveryVars,
                     oracleVars>>
otherThanOracle == <<formatVars, sessionVars, actionVars, stateVars, operatorVars, recoveryVars>>

----------------------------------------------------------------------------
(* Bounds of the model. *)

\* wrapper invocations made one after the other in one process
MaxRuns == 2
\* longest action list handed to try_actions
MaxActions == 3
\* largest timeout (seconds) handed to ensure_state_with_vision
MaxTimeout == 2
\* largest timeout_mins handed to create_issue_and_wait
MaxTimeoutMins == 1
\* seconds in a minute, scaled down: the deadline is in minutes, the poll
\* cadence in seconds
SecondsPerMinute == 3
\* longest time (seconds) a request to the operator queue takes
MaxLatency == 1

----------------------------------------------------------------------------
(* Program constants. *)

\* max_tries of the backoff decorators of ui_operator.py
max_tries == 3

\* get_corrective_actions calls made on one CourseCorrectorV1 instance
MaxTurns == 3

\* shortest and longest time (seconds) one llm_call takes
MinCallTime == 5
MaxCallTime == 20
\* most words in a target prompt handed to find_target
MaxWords == 2
\* longest anchor sequence of an action handed to _format_action_string
MaxAnchors == 2

----------------------------------------------------------------------------
(* Exception classes and their base classes.                               *)

\* client_actor/exception.py: all three derive from Exception directly.
ClientActorErrors == {"PerformActionException", "AckTimeoutError", "ActionTimeoutError"}

\* IsInstance(e, c): an exception of class e is caught by `except c`.
IsInstance(e, c) ==
    \/ c = "Exception"
    \/ e = c

----------------------------------------------------------------------------
(* gui_automation wrapper                                                  *)

Runs == 1..MaxRuns

NoRun == [pc |-> "init", allocCalls |-> 0, deallocCalls |-> 0, connectCalls |-> 0,
          bodyCalls |-> 0, closeCalls |-> 0, ws |-> 0, reachedOpen |-> FALSE,
          bodyWs |-> 0, bodyRaised |-> FALSE, closedWs |-> 0, exc |-> "none",
          loopClosed |-> FALSE]

InitSession ==
    /\ run = [r \in Runs |-> NoRun]
    /\ global_ws = 0
    /\ wsState = [c \in Runs |-> "NONE"]
    /\ environ = [PROC_ID |-> 0, REMOTE_DEVICE_ID |-> 0, REMOTE_DEVICE_NAME |-> 0]
    /\ devices = {}

\* The wrapper is synchronous: an invocation starts when none is in progress.
NoneActive == \A q \in Runs : run[q].pc \in {"init", "exit"}

\* wrapper, line 57: os.environ["PROC_ID"] = payload.instance_id
Wrapper_Call(r) ==
    /\ run[r].pc = "init"
    /\ \A q \in Runs : q < r => run[q].pc = "exit"
    /\ NoneActive
    /\ run' = [run EXCEPT ![r].pc = "allocate"]
    /\ environ' = [environ EXCEPT !.PROC_ID = r]
    /\ UNCHANGED <<global_ws, wsState, devices>>
    /\ UNCHANGED otherThanSession

\* Variant of AfterAllocate: the allocation is made inside the try block.
AfterAllocate_Guarded(ok) == IF ok THEN "connect" ELSE "finally"

\* Lines 59-65: the allocation precedes the try statement, so its error
\* leaves the wrapper without entering the finally block.
AfterAllocate(ok) == IF ok THEN "connect" ELSE "exit"

\* _allocate_remote_device, called outside the try block (line 59). The
\* manager either hands out a device or the request raises.
_allocate_remote_device(r) ==
    /\ run[r].pc = "allocate"
    /\ \E ok \in BOOLEAN :
        IF ok
        THEN /\ devices' = devices \cup {r}
             /\ environ' = [environ EXCEPT !.REMOTE_DEVICE_ID = r,
                                           !.REMOTE_DEVICE_NAME = r]
             /\ run' = [run EXCEPT ![r].pc = AfterAllocate(ok),
                                   ![r].allocCalls = @ + 1]
        ELSE /\ run' = [run EXCEPT ![r].pc = AfterAllocate(ok),
                                   ![r].allocCalls = @ + 1,
                                   ![r].exc = "AllocateError"]
             /\ UNCHANGED <<devices, environ>>
    /\ UNCHANGED <<global_ws, wsState>>
    /\ UNCHANGED otherThanSession

\* Variant of AfterConnect: the test of global_ws.state is missing.
AfterConnect_NoStateTest(res) == IF res = "raise" THEN "finally" ELSE "body"

\* Lines 74-79: the body is entered only with an OPEN connection.
AfterConnect(res) == IF res = "OPEN" THEN "body" ELSE "finally"

\* Lines 66-79: connect, then the test of global_ws.state. connect() returns
\* a connection (open, or already not open) or raises; global_ws is assigned
\* only when it returns.
Wrapper_Connect(r) ==
    /\ run[r].pc = "connect"
    /\ \E res \in {"OPEN", "CLOSED", "raise"} :
        CASE res = "OPEN" ->
                /\ global_ws' = r
                /\ wsState' = [wsState EXCEPT ![r] = "OPEN"]
                /\ run' = [run EXCEPT ![r].pc = AfterConnect(res),
                                      ![r].connectCalls = @ + 1,
                                      ![r].ws = r,
                                      ![r].reachedOpen = TRUE]
          [] res = "CLOSED" ->
                /\ global_ws' = IF AfterConnect(res) = "body" THEN r ELSE 0
                /\ wsState' = [wsState EXCEPT ![r] = "CLOSED"]
                /\ run' = [run EXCEPT ![r].pc = AfterConnect(res),
                                      ![r].connectCalls = @ + 1,
                                      ![r].ws = r,
                                      ![r].exc = IF AfterConnect(res) = "body"
                                                 THEN "none"
                                                 ELSE "WebSocketConnectionFailed"]
          [] res = "raise" ->
                /\ run' = [run EXCEPT ![r].pc = "finally",
                                      ![r].connectCalls = @ + 1,
                                      ![r].exc = "ConnectError"]
                /\ UNCHANGED <<global_ws, wsState>>
    /\ UNCHANGED <<environ, devices>>
    /\ UNCHANGED otherThanSession

\* Line 76: func(payload, ...). The body returns or raises; the peer may
\* drop the connection while it runs.
Wrapper_Body(r) ==
    /\ run[r].pc = "body"
    /\ \E raises \in BOOLEAN, dropped \in BOOLEAN :
        /\ run' = [run EXCEPT ![r].pc = "finally",
                              ![r].bodyCalls = @ + 1,
                              ![r].bodyWs = global_ws,
                              ![r].bodyRaised = raises,
                              ![r].exc = IF raises THEN "BodyError" ELSE "none"]
        /\ wsState' = IF dropped /\ global_ws # 0
                      THEN [wsState EXCEPT ![global_ws] = "CLOSED"]
                      ELSE wsState
    /\ UNCHANGED <<global_ws, environ, devices>>
    /\ UNCHANGED otherThanSession

\* Variant of PopProcId: the entry is left in place.
PopProcId_Kept(env) == env

\* Line 84: os.environ.pop("PROC_ID", None)
PopProcId(env) == [env EXCEPT !.PROC_ID = 0]

\* Variant of AfterDeallocate: a failed deallocation is caught and the
\* cleanup goes on.
AfterDeallocate_Isolated(ok) == "close"

\* Lines 85-87: an error of _deallocate_target leaves the finally block.
AfterDeallocate(ok) == IF ok THEN "close" ELSE "exit"

\* Lines 84-85 with _deallocate_target (lines 29-34): PROC_ID is popped, the
\* device is released; a failing request leaves the finally block at once.
Wrapper_Finally(r) ==
    /\ run[r].pc = "finally"
    /\ \E ok \in BOOLEAN :
        IF ok
        THEN /\ devices' = devices \ {r}
             /\ environ' = [PopProcId(environ) EXCEPT !.REMOTE_DEVICE_ID = 0,
                                                      !.REMOTE_DEVICE_NAME = 0]
             /\ run' = [run EXCEPT ![r].pc = AfterDeallocate(ok),
                                   ![r].deallocCalls = @ + 1]
        ELSE /\ environ' = PopProcId(environ)
             /\ run' = [run EXCEPT ![r].pc = AfterDeallocate(ok),
                                   ![r].deallocCalls = @ + 1,
                                   ![r].exc = "DeallocateError"]
             /\ UNCHANGED devices
    /\ UNCHANGED <<global_ws, wsState>>
    /\ UNCHANGED otherThanSession

\* Lines 87-90: the connection global_ws refers to is closed if it is open.
Wrapper_Close(r) ==
    /\ run[r].pc = "close"
    /\ IF global_ws # 0 /\ wsState[global_ws] = "OPEN"
       THEN /\ wsState' = [wsState EXCEPT ![global_ws] = "CLOSED"]
            /\ run' = [run EXCEPT ![r].pc = "loop",
                                  ![r].closeCalls = @ + 1,
                                  ![r].closedWs = global_ws]
       ELSE /\ run' = [run EXCEPT ![r].pc = "loop"]
            /\ UNCHANGED wsState
    /\ UNCHANGED <<global_ws, environ, devices>>
    /\ UNCHANGED otherThanSession

\* Lines 92-95: the event loop is closed; the pending exception, if any,
\* propagates, else func_ret is returned.
Wrapper_Exit(r) ==
    /\ run[r].pc = "loop"
    /\ run' = [run EXCEPT ![r].pc = "exit", ![r].loopClosed = TRUE]
    /\ UNCHANGED <<global_ws, wsState, environ, devices>>
    /\ UNCHANGED otherThanSession

\* wrapper, line 57, entered from another thread while an invocation is in
\* progress: global_ws and os.environ are module-level and process-wide.
Wrapper_CallInThread(r) ==
    /\ run[r].pc = "init"
    /\ ~NoneActive
    /\ run' = [run EXCEPT ![r].pc = "allocate"]
    /\ environ' = [environ EXCEPT !.PROC_ID = r]
    /\ UNCHANGED <<global_ws, wsState, devices>>
    /\ UNCHANGED otherThanSession

NextSession ==
    \/ \E r \in Runs : Wrapper_Call(r)
    \/ \E r \in Runs : _allocate_remote_device(r)
    \/ \E r \in Runs : Wrapper_Connect(r)
    \/ \E r \in Runs : Wrapper_Body(r)
    \/ \E r \in Runs : Wrapper_Finally(r)
    \/ \E r \in Runs : Wrapper_Close(r)
    \/ \E r \in Runs : Wrapper_Exit(r)

\* Invocations that may interleave, each in a thread of its own.
NextThreads ==
    \/ \E r \in Runs : Wrapper_Call(r)
    \/ \E r \in Runs : Wrapper_CallInThread(r)
    \/ \E r \in Runs : _allocate_remote_device(r)
    \/ \E r \in Runs : Wrapper_Connect(r)
    \/ \E r \in Runs : Wrapper_Body(r)
    \/ \E r \in Runs : Wrapper_Finally(r)
    \/ \E r \in Runs : Wrapper_Close(r)
    \/ \E r \in Runs : Wrapper_Exit(r)

----------------------------------------------------------------------------
(* try_actions                                                             *)

\* What an element of the list does when its do() is called: it succeeds or
\* raises; "notAction" is an element that is no BaseAction.
DoErrors == {"RuntimeError", "AssertionError"} \cup ClientActorErrors
ActionKinds == {"ok", "notAction"} \cup DoErrors

ActionLists == UNION {[1..n -> ActionKinds] : n \in 0..MaxActions}

NoTryActions == [pc |-> "idle", actions |-> <<>>, i |-> 0, executed |-> <<>>,
                 exc |-> "none"]

InitActions == ta = NoTryActions

\* Variant of OuterHandler: the handler written as `except Exception`.
OuterHandler_AnyException(e) == "TypeError"

\* Variant of OuterHandler: the handler is missing.
OuterHandler_Transparent(e) == e

\* The outer handler of try_actions (lines 105-108): an AssertionError
\* leaves as TypeError, anything else leaves unchanged.
OuterHandler(e) ==
    IF IsInstance(e, "AssertionError") THEN "TypeError" ELSE e

\* Variant of InnerCatches: the handler written as `except Exception`.
InnerCatches_AnyException(e) == IsInstance(e, "Exception")

\* The inner handler (line 97): which failures of do() are logged and skipped.
InnerCatches(e) == IsInstance(e, "RuntimeError")

\* Variant of AllValid: the assert is not evaluated.
AllValid_Skipped(actions) == TRUE

\* Line 92: assert all(isinstance(action, BaseAction) for action in actions)
AllValid(actions) == \A k \in 1..Len(actions) : actions[k] # "notAction"

\* What do() of an element raises: an element that is no BaseAction has no
\* do(), every other failing element raises its own error.
Raises(kind) == IF kind = "notAction" THEN "AttributeError" ELSE kind

\* Variant of AfterDo: the `return` after a successful do() is missing.
AfterDo_NoReturn(kind) ==
    IF kind = "ok" \/ InnerCatches(Raises(kind)) THEN "loop" ELSE "raised"

\* Lines 94-101: where control goes after action.do().
AfterDo(kind) ==
    IF kind = "ok" THEN "returned"
    ELSE IF InnerCatches(Raises(kind)) THEN "loop" ELSE "raised"

try_actions_Call ==
    /\ ta.pc = "idle"
    /\ \E actions \in ActionLists :
        IF AllValid(actions)
        THEN ta' = [NoTryActions EXCEPT !.pc = "loop", !.actions = actions, !.i = 1]
        ELSE ta' = [NoTryActions EXCEPT !.pc = "raised", !.actions = actions,
                                        !.exc = OuterHandler("AssertionError")]
    /\ UNCHANGED otherThanActions

\* Lines 93-101: one iteration of the loop, action.do() included.
try_actions_Do ==
    /\ ta.pc = "loop"
    /\ ta.i <= Len(ta.actions)
    /\ LET kind == ta.actions[ta.i]
           done == Append(ta.executed, ta.i)
       IN  CASE AfterDo(kind) = "returned" ->
                    ta' = [ta EXCEPT !.pc = "returned", !.executed = done]
             [] AfterDo(kind) = "loop" ->
                    ta' = [ta EXCEPT !.i = @ + 1, !.executed = done]
             [] OTHER ->
                    ta' = [ta EXCEPT !.pc = "raised", !.executed = done,
                                     !.exc = OuterHandler(Raises(kind))]
    /\ UNCHANGED otherThanActions

\* Lines 102-104: the list is exhausted.
try_actions_Exhausted ==
    /\ ta.pc = "loop"
    /\ ta.i > Len(ta.actions)
    /\ ta' = [ta EXCEPT !.pc = "raised", !.exc = OuterHandler("AllActionsFailed")]
    /\ UNCHANGED otherThanActions

NextActions ==
    \/ try_actions_Call
    \/ try_actions_Do
    \/ try_actions_Exhausted

----------------------------------------------------------------------------
(* ensure_state_with_vision, with Vision.verify_state                      *)

\* The variants (state classes) a States object may register, and the id of
\* the state object registered under each; ids are unique within a run.
StateClasses == {"ExpectedState", "LoadingState", "UnexpectedState", "CustomState"}

IdOf(cls) ==
    CASE cls = "ExpectedState" -> "expected"
      [] cls = "LoadingState" -> "loading"
      [] cls = "UnexpectedState" -> "unexpected"
      [] cls = "CustomState" -> "custom"

\* A States value is the set of classes it registers (possible_states).
StatesValues == SUBSET StateClasses \ {{}}

\* What the oracle may report: the id of any known state, or an id no
\* candidate carries.
OracleIds == {IdOf(c) : c \in StateClasses} \cup {"unknown"}

\* The descriptions the oracle may attach to its answer.
Descriptions == {"screen shows a form", "screen shows a spinner"}

\* The parsed answer of the oracle: a BaseState with an id and a description.
OracleResponses == [id : OracleIds, description : Descriptions]

\* Variant of _sort_into_state_class: another default for unmatched ids.
_sort_into_state_class_DefaultUnexpected(id, possible_states) ==
    IF \E c \in possible_states : IdOf(c) = id
    THEN CHOOSE c \in possible_states : IdOf(c) = id
    ELSE "UnexpectedState"

\* Vision._sort_into_state_class: the class of the candidate carrying the
\* reported id, ExpectedState when there is none.
_sort_into_state_class(id, possible_states) ==
    IF \E c \in possible_states : IdOf(c) = id
    THEN CHOOSE c \in possible_states : IdOf(c) = id
    ELSE "ExpectedState"

\* Vision.verify_state: the oracle's answer sorted into a state class; the
\* object built carries the description of the answer.
verify_state(model_response, possible_states) ==
    [cls |-> _sort_into_state_class(model_response.id, possible_states),
     description |-> model_response.description]

\* Python values: an object of a state class, and the class object itself.
InstanceOfClass(cls) == [kind |-> "instance", cls |-> cls]
ClassObject(cls) == [kind |-> "class", cls |-> cls]

\* `state == cls` of line 44: a state object compared with a class object.
EqualsClass(state, cls) == InstanceOfClass(state) = ClassObject(cls)

\* Variant of IsInstanceOf: the first test written like the one of line 44.
IsInstanceOf_ByEquality(state, cls) == EqualsClass(state, cls)

\* isinstance(state, cls) for a state object of class `state`.
IsInstanceOf(state, cls) == state = cls

NoEnsure == [pc |-> "idle", states |-> {}, callable |-> FALSE, timeout |-> 0,
             producerCalls |-> 0, verified |-> <<>>, reported |-> <<>>,
             results |-> <<>>, described |-> <<>>,
             sleeps |-> <<>>, result |-> FALSE]

\* Vision.classify_state: the candidates are {id, description} entries, here
\* a function from ids to descriptions.
CandidateLists ==
    {[x \in {"A"} |-> "desc A"],
     [x \in {"A", "B"} |-> IF x = "A" THEN "desc A" ELSE "desc B"]}

\* The output_model argument as the caller wrote it.
OutputModelArgs == {"omitted", "None", "CustomState"}

\* Line 458: the default of the output_model parameter is BaseState.
DefaultOutputModel(arg) == IF arg = "omitted" THEN "BaseState" ELSE arg

\* _send_openai_request, lines 265-269: the model the answer is parsed into.
response_model(output_model) ==
    IF output_model # "None" THEN output_model ELSE "BaseState"

\* Lines 478-481: the value classify_state returns for a parsed answer.
classify_state_result(output_model, state) ==
    IF output_model # "None"
    THEN [kind |-> "model", cls |-> state.cls,
          id |-> state.id, description |-> state.description]
    ELSE [kind |-> "tuple", cls |-> "tuple",
          id |-> state.id, description |-> state.description]

NoClassify == [pc |-> "idle", arg |-> "omitted", output_model |-> "BaseState",
               possible_states |-> <<>>, state |-> <<>>, result |-> <<>>]

InitState == es = NoEnsure /\ cs = NoClassify

\* Lines 36-38: the producer, if one is given, is called; states is rebound.
ensure_state_Call ==
    /\ es.pc = "idle"
    /\ \E states \in StatesValues, callable \in BOOLEAN, timeout \in 1..MaxTimeout :
        es' = [NoEnsure EXCEPT !.pc = "verify", !.states = states,
                               !.callable = callable, !.timeout = timeout,
                               !.producerCalls = IF callable THEN 1 ELSE 0]
    /\ UNCHANGED <<cs, otherThanState>>

\* Lines 39-42 and 45: the first verify_state and the branch on its result.
ensure_state_Verify ==
    /\ es.pc = "verify"
    /\ \E model_response \in OracleResponses :
        LET sorted_state == verify_state(model_response, es.states)
            state == sorted_state.cls
            seen == [es EXCEPT !.verified = Append(@, es.states),
                               !.reported = Append(@, model_response),
                               !.results = Append(@, state),
                               !.described = Append(@, sorted_state.description)]
        IN  IF IsInstanceOf(state, "ExpectedState")
            THEN es' = [seen EXCEPT !.pc = "returned", !.result = TRUE]
            ELSE IF IsInstanceOf(state, "LoadingState")
                 THEN es' = [seen EXCEPT !.pc = "sleep"]
                 ELSE es' = [seen EXCEPT !.pc = "returned", !.result = FALSE]
    /\ UNCHANGED <<cs, otherThanState>>

\* Line 43: time.sleep(timeout)
ensure_state_Sleep ==
    /\ es.pc = "sleep"
    /\ es' = [es EXCEPT !.pc = "reverify", !.sleeps = Append(@, es.timeout)]
    /\ UNCHANGED <<cs, otherThanState>>

\* Line 44: return Vision().verify_state(states) == ExpectedState
ensure_state_Reverify ==
    /\ es.pc = "reverify"
    /\ \E model_response \in OracleResponses :
        LET sorted_state == verify_state(model_response, es.states)
            state == sorted_state.cls
        IN  es' = [es EXCEPT !.pc = "returned",
                             !.verified = Append(@, es.states),
                             !.reported = Append(@, model_response),
                             !.results = Append(@, state),
                             !.described = Append(@, sorted_state.description),
                             !.result = EqualsClass(state, "ExpectedState")]
    /\ UNCHANGED <<cs, otherThanState>>

\* Lines 455-459: classify_state is entered; output_model takes its default.
classify_state_Call ==
    /\ cs.pc = "idle"
    /\ \E possible_states \in CandidateLists, arg \in OutputModelArgs :
        cs' = [NoClassify EXCEPT !.pc = "request", !.arg = arg,
                                 !.output_model = DefaultOutputModel(arg),
                                 !.possible_states = possible_states]
    /\ UNCHANGED <<es, otherThanState>>

\* Lines 468-483: the oracle names one of the candidates; the answer is
\* parsed into the response model and the result is chosen.
classify_state_Return ==
    /\ cs.pc = "request"
    /\ \E id \in DOMAIN cs.possible_states :
        LET state == [cls |-> response_model(cs.output_model), id |-> id,
                      description |-> cs.possible_states[id]]
        IN  cs' = [cs EXCEPT !.pc = "returned", !.state = state,
                             !.result = classify_state_result(cs.output_model, state)]
    /\ UNCHANGED <<es, otherThanState>>

NextState ==
    \/ classify_state_Call
    \/ classify_state_Return
    \/ ensure_state_Call
    \/ ensure_state_Verify
    \/ ensure_state_Sleep
    \/ ensure_state_Reverify

----------------------------------------------------------------------------
(* Operator escalation: create_issue_and_wait                              *)

\* How a request to the operator queue ends: a 2xx body with a resource, a
\* 2xx body with success=false, a non-2xx status, or no response at all
\* (requests raises a ConnectionError).
RequestOutcomes == {"resource", "softFail", "non2xx", "transportError"}

\* _handle_response: the resource, or None for success=false and for the
\* HTTPError of raise_for_status, which it catches.
_handle_response(outcome) ==
    IF outcome = "resource" THEN "resource" ELSE "None"

\* The exception a request function lets escape, "none" if it returns.
Escapes(outcome) ==
    IF outcome = "transportError" THEN "ConnectionError" ELSE "none"

\* backoff.on_exception(backoff.expo, requests.HTTPError, max_tries=3): the
\* call is repeated when an HTTPError escapes and tries remain.
Retried(exc, tries) == IsInstance(exc, "HTTPError") /\ tries < max_tries

Resolutions == {"pending", "performed", "raise", "timeout"}

TimeoutMins == (0 - 1)..MaxTimeoutMins

NoOperator == [pc |-> "idle", caller |-> "none", timeout_mins |-> 0, now |-> 0,
               resolution_deadline |-> 0, createTries |-> 0, polls |-> 0,
               lastPollAt |-> 0, sleeps |-> 0, resolves |-> <<>>,
               resolveAt |-> 0, observed |-> "none", afterObserved |-> 0,
               result |-> "none", exc |-> "none", issueValue |-> "unset",
               createOutcome |-> "none", lastStatus |-> "none"]

NoIssue == [created |-> FALSE, resolution |-> "pending", resolveRequests |-> <<>>]

\* Lines 124-125: the deadline is computed at entry.
Enter(caller, timeout_mins) ==
    [NoOperator EXCEPT !.pc = "create", !.caller = caller,
                       !.timeout_mins = timeout_mins,
                       !.resolution_deadline = timeout_mins * SecondsPerMinute]

\* Variant of AfterCreate: the loop is entered whatever the create call gave.
AfterCreate_NoReturn(issueValue) == "while"

\* Lines 136-141: `if issue:` enters the wait, else the call returns False.
AfterCreate(issueValue) == IF issueValue = "None" THEN "returned" ELSE "while"

\* Lines 128-141 with _create_issue (lines 53-78).
create_issue ==
    /\ op.pc = "create"
    /\ \E outcome \in RequestOutcomes, d \in 0..MaxLatency :
        LET tries == op.createTries + 1
            sent == [op EXCEPT !.createTries = tries, !.now = @ + d,
                               !.createOutcome = outcome]
        IN  IF Escapes(outcome) # "none"
            THEN /\ op' = IF Retried(Escapes(outcome), tries)
                          THEN sent
                          ELSE [sent EXCEPT !.pc = "raised", !.exc = Escapes(outcome)]
                 /\ UNCHANGED issue
            ELSE LET value == _handle_response(outcome)
                 IN  /\ op' = [sent EXCEPT
                                  !.pc = AfterCreate(value),
                                  !.issueValue = value,
                                  !.result = IF AfterCreate(value) = "returned"
                                             THEN "False" ELSE @]
                     /\ issue' = IF value = "None" THEN issue
                                 ELSE [NoIssue EXCEPT !.created = TRUE]
    /\ UNCHANGED me
    /\ UNCHANGED otherThanOperator

\* Variant of AfterWhile: the call returns after the loop without the
\* resolve call.
AfterWhile_NoResolve(now, deadline) == IF now < deadline THEN "poll" ELSE "returned"

\* Variant of AfterWhile: the deadline itself still admits a poll.
AfterWhile_AtDeadline(now, deadline) == IF now <= deadline THEN "poll" ELSE "resolve"

\* Line 144: while datetime.now() < resolution_deadline; the statement
\* after the loop is the resolve call of line 164.
AfterWhile(now, deadline) == IF now < deadline THEN "poll" ELSE "resolve"

while_deadline ==
    /\ op.pc = "while"
    /\ op' = [op EXCEPT !.pc = AfterWhile(op.now, op.resolution_deadline)]
    /\ UNCHANGED <<issue, me>>
    /\ UNCHANGED otherThanOperator

\* Variant of AfterStatus: a resolution that is not 'performed' ends the wait.
AfterStatus_PendingEnds(resolution) ==
    CASE resolution = "performed" -> "returned"
      [] OTHER -> "resolve"

\* Variant of AfterStatus: 'performed' does not end the wait.
AfterStatus_KeepPolling(resolution) ==
    CASE resolution = "raise" -> "resolve"
      [] OTHER -> "sleep"

\* Variant of AfterStatus: the break of the 'raise' branch is missing.
AfterStatus_NoBreak(resolution) ==
    CASE resolution = "performed" -> "returned"
      [] OTHER -> "sleep"

\* Lines 148-159: what follows a status that carries `resolution`.
AfterStatus(resolution) ==
    CASE resolution = "performed" -> "returned"
      [] resolution = "raise" -> "resolve"
      [] OTHER -> "sleep"

\* The number of polls and sleeps made after a terminal resolution was
\* observed.
Count(frame) == IF frame.observed = "none" THEN frame.afterObserved
                ELSE frame.afterObserved + 1

\* Lines 145-159 with _get_issue_status (lines 81-91).
get_issue_status ==
    /\ op.pc = "poll"
    /\ \E outcome \in RequestOutcomes, d \in 0..MaxLatency :
        LET sent == [op EXCEPT !.polls = @ + 1,
                               !.lastPollAt = op.now,
                               !.afterObserved = Count(op),
                               !.now = @ + d]
        IN  IF Escapes(outcome) # "none"
            THEN op' = [sent EXCEPT !.pc = "raised", !.exc = Escapes(outcome)]
            ELSE IF _handle_response(outcome) = "None"
                 THEN op' = [sent EXCEPT !.pc = "sleep", !.lastStatus = "None"]
                 ELSE op' = [sent EXCEPT
                                !.pc = AfterStatus(issue.resolution),
                                !.lastStatus = issue.resolution,
                                !.result = IF AfterStatus(issue.resolution) = "returned"
                                           THEN "True" ELSE @,
                                !.observed = IF issue.resolution \in {"performed", "raise"}
                                             THEN issue.resolution ELSE @]
    /\ UNCHANGED <<issue, me>>
    /\ UNCHANGED otherThanOperator

\* Line 160: time.sleep(1)
poll_sleep ==
    /\ op.pc = "sleep"
    /\ op' = [op EXCEPT !.pc = "while", !.now = @ + 1, !.sleeps = @ + 1,
                        !.afterObserved = Count(op)]
    /\ UNCHANGED <<issue, me>>
    /\ UNCHANGED otherThanOperator

\* Lines 162-166 with _resolve_issue (lines 94-107).
resolve_issue ==
    /\ op.pc = "resolve"
    /\ \E outcome \in RequestOutcomes, d \in 0..MaxLatency :
        LET sent == [op EXCEPT !.resolves = Append(@, "timeout"),
                               !.resolveAt = op.now,
                               !.now = @ + d]
        IN  /\ op' = IF Escapes(outcome) # "none"
                     THEN [sent EXCEPT !.pc = "raised", !.exc = Escapes(outcome)]
                     ELSE [sent EXCEPT !.pc = "returned", !.result = "False"]
            /\ issue' = IF Escapes(outcome) = "none"
                        THEN [issue EXCEPT !.resolveRequests = Append(@, "timeout")]
                        ELSE issue
    /\ UNCHANGED me
    /\ UNCHANGED otherThanOperator

\* The human reviewer resolves a pending issue while the caller waits.
Reviewer ==
    /\ issue.created
    /\ issue.resolution = "pending"
    /\ op.pc \in {"while", "poll", "sleep"}
    /\ \E res \in {"performed", "raise"} :
        issue' = [issue EXCEPT !.resolution = res]
    /\ UNCHANGED <<op, me>>
    /\ UNCHANGED otherThanOperator

----------------------------------------------------------------------------
(* maybe_engage_operator_ui_action                                         *)

\* The parameters of create_issue_and_wait (ui_operator.py, lines 110-117)
\* and the keywords of the call in support.py (lines 147-154).
Parameters == {"issue_title", "issue_description", "timeout_mins", "client_name",
               "run_id", "attachments"}
CallKeywords == {"proc_inst_id", "client_name", "issue_title", "issue_description",
                 "timeout_mins", "attachments"}

\* A call with keyword arguments binds only if each names a parameter;
\* otherwise Python raises TypeError before the function body runs.
Binds(keywords, parameters) == keywords \subseteq parameters

\* distutils.util.strtobool on the values USE_OPERATOR may hold; the default
\* of os.getenv is "False".
UseOperatorValues == {"unset", "true", "1", "false", "0", "maybe"}

\* Variant of strtobool: the toggle read as bool(os.getenv(...)), true for
\* every non-empty string, the default "False" included.
strtobool_BoolOfString(v) == "True"

strtobool(v) ==
    CASE v \in {"true", "1"} -> "True"
      [] v \in {"false", "0", "unset"} -> "False"
      [] OTHER -> "ValueError"

NoEngage == [pc |-> "idle", use_operator |-> "unset", engaged |-> FALSE,
             operator_result |-> "none", swallowed |-> "none", exc |-> "none"]

InitOperator ==
    /\ op = NoOperator
    /\ issue = NoIssue
    /\ me = NoEngage

\* A direct call of create_issue_and_wait.
create_issue_and_wait_Call ==
    /\ op.pc = "idle"
    /\ me.pc = "idle"
    /\ \E t \in TimeoutMins : op' = Enter("direct", t)
    /\ UNCHANGED <<issue, me>>
    /\ UNCHANGED otherThanOperator

\* Lines 135-154: the USE_OPERATOR test and the call of the escalation.
maybe_engage_operator_ui_action ==
    /\ me.pc = "idle"
    /\ op.pc = "idle"
    /\ \E v \in UseOperatorValues, t \in TimeoutMins :
        LET frame == [NoEngage EXCEPT !.use_operator = v]
        IN  CASE strtobool(v) = "ValueError" ->
                    /\ me' = [frame EXCEPT !.pc = "raised", !.exc = "ValueError"]
                    /\ UNCHANGED op
              [] strtobool(v) = "False" ->
                    /\ me' = [frame EXCEPT !.pc = "raised", !.exc = "original"]
                    /\ UNCHANGED op
              [] strtobool(v) = "True" /\ ~Binds(CallKeywords, Parameters) ->
                    /\ me' = [frame EXCEPT !.pc = "raised", !.exc = "original",
                                           !.swallowed = "TypeError"]
                    /\ UNCHANGED op
              [] OTHER ->
                    /\ me' = [frame EXCEPT !.pc = "waiting", !.engaged = TRUE]
                    /\ op' = Enter("engage", t)
    /\ UNCHANGED issue
    /\ UNCHANGED otherThanOperator

\* create_issue_and_wait hands its result, or its exception, to its caller;
\* lines 155-163 of maybe_engage_operator_ui_action act on it.
create_issue_and_wait_Return ==
    /\ op.pc \in {"returned", "raised"}
    /\ op.caller \in {"direct", "engage"}
    /\ op' = [op EXCEPT !.caller = "none"]
    /\ IF op.caller = "engage"
       THEN me' = IF op.pc = "returned" /\ op.result = "True"
                  THEN [me EXCEPT !.pc = "returned", !.operator_result = "True"]
                  ELSE [me EXCEPT !.pc = "raised", !.exc = "original",
                                  !.operator_result = op.result,
                                  !.swallowed = op.exc]
       ELSE UNCHANGED me
    /\ UNCHANGED issue
    /\ UNCHANGED otherThanOperator

NextOperator ==
    \/ create_issue_and_wait_Call
    \/ create_issue
    \/ while_deadline
    \/ get_issue_status
    \/ poll_sleep
    \/ resolve_issue
    \/ Reviewer
    \/ maybe_engage_operator_ui_action
    \/ create_issue_and_wait_Return

----------------------------------------------------------------------------
(* The oracle call and its retry policy (backoff.on_exception)             *)

\* The exception classes named by the decorators of _try_openai_call, the
\* same tuple in gui_vision.py and in ai_recovery.py.
RetryOn == {"NetworkError", "InvalidJSONResponseError", "ResponseValidationError",
            "UnexpectedError", "NotImplementedError", "MissingEnvironmentVariable"}

\* What one attempt of _try_openai_call may raise: llm_call's errors, the
\* NotImplementedError of a response that is no BaseModel, and an error of
\* a class the decorator does not name.
OracleErrors == RetryOn \cup {"ValueError"}

\* max_tries of CourseCorrectorV1._try_openai_call
recovery_max_tries == 3

\* backoff.on_exception(backoff.expo, (...), max_tries=3): another attempt
\* follows an error of a named class while tries remain.
RetriedByRecovery(exc, tries) == exc \in RetryOn /\ tries < recovery_max_tries

\* max_time of Vision._try_openai_call, in seconds
max_time == 60

\* backoff.on_exception(backoff.expo, (...), max_time=60): another attempt
\* follows an error of a named class while the time from the first attempt
\* to the start of the failed one (backoff reads the clock before it calls
\* the target) is below max_time.
RetriedByVision(exc, elapsed) == exc \in RetryOn /\ elapsed < max_time

Owners == {"Vision", "CourseCorrectorV1"}

RetriedBy(owner, exc, tries, elapsed) ==
    IF owner = "Vision" THEN RetriedByVision(exc, elapsed)
    ELSE RetriedByRecovery(exc, tries)

Min(a, b) == IF a < b THEN a ELSE b

\* backoff.expo with full jitter: the n-th wait is drawn from 0..2^(n-1);
\* under max_time it is cut to the time that remains.
Waits(owner, tries, elapsed) ==
    LET top == IF owner = "Vision" THEN Min(2 ^ (tries - 1), max_time - elapsed)
               ELSE 2 ^ (tries - 1)
    IN  {0, top}

\* find_target: the output_model argument; its default is TargetWithAnchor.
FindTargetArgs == {"omitted", "Answer"}
FindTargetModel(arg) == IF arg = "omitted" THEN "TargetWithAnchor" ELSE arg

NoOracleCall == [pc |-> "idle", owner |-> "Vision", caller |-> "none",
                 words |-> 0, output_model |-> "none", tries |-> 0,
                 elapsed |-> 0, lastStart |-> 0, lastExc |-> "none",
                 response |-> "none", result |-> "none", exc |-> "none"]

InitOracle == oc = NoOracleCall

\* _try_openai_call of either class, called by _send_openai_request.
try_openai_call_Call ==
    /\ oc.pc = "idle"
    /\ \E owner \in Owners :
        oc' = [NoOracleCall EXCEPT !.pc = "attempt", !.owner = owner,
                                   !.caller = "_send_openai_request",
                                   !.output_model = "ActionString"]
    /\ UNCHANGED otherThanOracle

\* Vision.find_target, lines 385-405: the screen is read and the request
\* sent with the target prompt; nothing looks at the words of the prompt.
find_target_Call ==
    /\ oc.pc = "idle"
    /\ \E words \in 1..MaxWords, arg \in FindTargetArgs :
        oc' = [NoOracleCall EXCEPT !.pc = "attempt", !.owner = "Vision",
                                   !.caller = "find_target",
                                   !.words = words,
                                   !.output_model = FindTargetModel(arg)]
    /\ UNCHANGED otherThanOracle

\* One attempt: llm_call answers with an object of the output model, or an
\* error is raised; the decorator decides between another attempt and
\* letting the error go.
try_openai_call_Attempt ==
    /\ oc.pc = "attempt"
    /\ \E outcome \in {"response"} \cup OracleErrors, t \in {MinCallTime, MaxCallTime} :
        LET tried == [oc EXCEPT !.tries = @ + 1, !.lastStart = oc.elapsed,
                                !.elapsed = @ + t,
                                !.lastExc = IF outcome = "response" THEN "none"
                                            ELSE outcome]
        IN  IF outcome = "response"
            THEN oc' = [tried EXCEPT
                           !.response = oc.output_model,
                           !.pc = IF oc.caller = "find_target"
                                  THEN "find_target" ELSE "returned",
                           !.result = IF oc.caller = "find_target"
                                      THEN "none" ELSE oc.output_model]
            ELSE IF RetriedBy(oc.owner, outcome, tried.tries, tried.lastStart)
                 THEN oc' = [tried EXCEPT !.pc = "wait"]
                 ELSE oc' = [tried EXCEPT !.pc = "raised", !.exc = outcome]
    /\ UNCHANGED otherThanOracle

\* The sleep backoff makes before the next attempt.
try_openai_call_Wait ==
    /\ oc.pc = "wait"
    /\ \E w \in Waits(oc.owner, oc.tries, oc.lastStart) :
        oc' = [oc EXCEPT !.pc = "attempt", !.elapsed = @ + w]
    /\ UNCHANGED otherThanOracle

\* Vision.find_target, lines 406-408
find_target_Return ==
    /\ oc.pc = "find_target"
    /\ oc' = IF IsInstanceOf(oc.response, "TargetWithAnchor")
             THEN [oc EXCEPT !.pc = "returned", !.result = oc.response]
             ELSE [oc EXCEPT !.pc = "raised", !.exc = "NotImplementedError"]
    /\ UNCHANGED otherThanOracle

NextOracle ==
    \/ try_openai_call_Call
    \/ find_target_Call
    \/ try_openai_call_Attempt
    \/ try_openai_call_Wait
    \/ find_target_Return

----------------------------------------------------------------------------
(* CourseCorrectorV1 (the Recovery Controller)                             *)

\* Python truthiness of an Optional[str]: None and "" are false.
Truthy(s) == s \notin {"None", ""}

CustomInstructions == {"None", "", "prefer keyboard shortcuts"}
Feedbacks == {"", "the click missed"}

\* Messages: a role and the text of the content.
SystemMessage(text) == [role |-> "system", text |-> text]
UserMessage(text) == [role |-> "user", text |-> text]
AiMessage(text) == [role |-> "ai", text |-> text]

_format_system_message == SystemMessage("SYSTEM_PROMPT")
_format_user_message(message) == UserMessage(message)
_format_custom_instructions(instructions) == SystemMessage(instructions)
_format_user_screen_message == UserMessage("Here is the observed screen:")
_format_ai_response_as_message(response) == AiMessage(response)

\* Variant of NeedsSeed: the seed is emitted on every turn.
NeedsSeed_EveryTurn(messages) == TRUE

\* Line 250: `if not self.messages`
NeedsSeed(messages) == messages = <<>>

\* Lines 251-256: system instruction, goal, custom instructions if any.
Seed(custom_instructions) ==
    <<_format_system_message, _format_user_message("goal")>>
        \o (IF Truthy(custom_instructions)
            THEN <<_format_custom_instructions(custom_instructions)>>
            ELSE <<>>)

\* Variant of TurnMessages: the feedback is appended after the screen.
TurnMessages_FeedbackLast(latest_feedback) ==
    <<_format_user_screen_message>>
        \o (IF Truthy(latest_feedback)
            THEN <<_format_user_message(latest_feedback)>>
            ELSE <<>>)

\* Lines 258-264: the pending feedback, then the current screen.
TurnMessages(latest_feedback) ==
    (IF Truthy(latest_feedback)
     THEN <<_format_user_message(latest_feedback)>>
     ELSE <<>>)
        \o <<_format_user_screen_message>>

\* Variant of AppendResponse: the response takes the place of the screen.
AppendResponse_Replacing(messages, response) ==
    [messages EXCEPT ![Len(messages)] = _format_ai_response_as_message(response)]

\* Line 268: self.messages.append(self._format_ai_response_as_message(response))
AppendResponse(messages, response) ==
    Append(messages, _format_ai_response_as_message(response))

\* Variant of ResetFeedback: the feedback is left pending.
ResetFeedback_Kept(latest_feedback) == latest_feedback

\* Line 365: self.latest_feedback = None
ResetFeedback(latest_feedback) == "None"

\* get_latest_feedback, line 359
get_latest_feedback(self) == self.latest_feedback

\* The number of times message m occurs in a history.
CountOf(messages, m) == Cardinality({k \in 1..Len(messages) : messages[k] = m})

\* Variant of FeedbackAfterTurn: the turn consumes the feedback.
FeedbackAfterTurn_Cleared(latest_feedback) == "None"

\* Lines 258-259: the turn reads self.latest_feedback and does not assign it.
FeedbackAfterTurn(latest_feedback) == latest_feedback

\* Variant of OnOracleFailure: the history is put back as the turn found it.
OnOracleFailure_RolledBack(messages, before) == before

\* Line 267: an error of _try_openai_call propagates through
\* _send_openai_request, which has no handler; self.messages stays as it is.
OnOracleFailure(messages, before) == messages

\* Variant of OnRetry: the screen message is appended anew for each attempt.
OnRetry_ScreenAgain(messages) == Append(messages, _format_user_screen_message)

\* Lines 194-206: the decorator wraps _try_openai_call only, so another
\* attempt repeats llm_call on the same list and nothing of lines 249-264.
OnRetry(messages) == messages

NoCorrector == [pc |-> "unbuilt", custom_instructions |-> "None",
                messages |-> <<>>, latest_feedback |-> "None",
                lastOp |-> "none", before |-> <<>>, seeded |-> FALSE,
                pendingAtCall |-> "None", sent |-> <<>>, tries |-> 0,
                turns |-> 0, sinceReset |-> FALSE,
                copiesAtAdd |-> 0, turnsSinceAdd |-> 0,
                returned |-> <<>>, exc |-> "none"]

InitRecovery == cc = NoCorrector

\* course_corrector_v1(goal, custom_instructions), lines 368-372
course_corrector_v1 ==
    /\ cc.pc = "unbuilt"
    /\ \E ci \in CustomInstructions :
        cc' = [NoCorrector EXCEPT !.pc = "ready", !.custom_instructions = ci,
                                  !.lastOp = "course_corrector_v1"]
    /\ UNCHANGED otherThanRecovery

\* add_feedback, lines 345-351
add_feedback ==
    /\ cc.pc = "ready"
    /\ \E feedback \in Feedbacks :
        cc' = [cc EXCEPT !.latest_feedback = feedback,
                         !.lastOp = "add_feedback",
                         !.before = cc.messages,
                         !.copiesAtAdd = CountOf(cc.messages, _format_user_message(feedback)),
                         !.turnsSinceAdd = 0,
                         !.sinceReset = FALSE]
    /\ UNCHANGED otherThanRecovery

\* reset_feedback, lines 361-365
reset_feedback ==
    /\ cc.pc = "ready"
    /\ cc' = [cc EXCEPT !.latest_feedback = ResetFeedback(@),
                        !.lastOp = "reset_feedback",
                        !.before = cc.messages,
                        !.copiesAtAdd = 0,
                        !.turnsSinceAdd = 0,
                        !.sinceReset = TRUE]
    /\ UNCHANGED otherThanRecovery

\* get_corrective_actions up to the oracle call: _get_screen (line 333),
\* which may raise before the history is touched, then lines 249-264 of
\* _send_openai_request.
get_corrective_actions_Call ==
    /\ cc.pc = "ready"
    /\ cc.turns < MaxTurns
    /\ \E screen \in {"ok", "raise"} :
        LET entered == [cc EXCEPT !.lastOp = "get_corrective_actions",
                                  !.before = cc.messages,
                                  !.pendingAtCall = cc.latest_feedback,
                                  !.turns = @ + 1, !.tries = 0,
                                  !.seeded = FALSE, !.sent = <<>>,
                                  !.returned = <<>>, !.exc = "none"]
            seed == IF NeedsSeed(cc.messages)
                    THEN Seed(cc.custom_instructions) ELSE <<>>
        IN  IF screen = "raise"
            THEN cc' = [entered EXCEPT !.exc = "ScreenError"]
            ELSE cc' = [entered EXCEPT
                           !.pc = "oracle",
                           !.seeded = NeedsSeed(cc.messages),
                           !.turnsSinceAdd = @ + 1,
                           !.latest_feedback = FeedbackAfterTurn(@),
                           !.messages = cc.messages \o seed
                                            \o TurnMessages(cc.latest_feedback)]
    /\ UNCHANGED otherThanRecovery

\* One attempt of _try_openai_call (lines 194-228) on self.messages, and
\* what follows it: lines 268-269 and 341-343 after a response, another
\* attempt or the error after a failure.
get_corrective_actions_Oracle ==
    /\ cc.pc = "oracle"
    /\ \E outcome \in {"response"} \cup OracleErrors :
        LET tried == [cc EXCEPT !.tries = @ + 1, !.sent = cc.messages]
        IN  IF outcome = "response"
            THEN cc' = [tried EXCEPT
                           !.pc = "ready",
                           !.messages = AppendResponse(cc.messages, "action_string"),
                           !.returned = <<"action_string">>]
            ELSE IF RetriedByRecovery(outcome, tried.tries)
                 THEN cc' = [tried EXCEPT !.messages = OnRetry(@)]
                 ELSE cc' = [tried EXCEPT
                                !.pc = "ready", !.exc = outcome,
                                !.messages = OnOracleFailure(@, cc.before)]
    /\ UNCHANGED otherThanRecovery

NextRecovery ==
    \/ course_corrector_v1
    \/ add_feedback
    \/ reset_feedback
    \/ get_corrective_actions_Call
    \/ get_corrective_actions_Oracle

----------------------------------------------------------------------------
(* _format_action_string                                                   *)

\* The actions the function is applied to: a class name, target_name and
\* target, the anchors in order, and click_offset, a two-element list.
Relations == {"above", "below", "left", "right"}
Anchors == [relation : Relations, value : {"Total"}]
AnchorSeqs == UNION {[1..n -> Anchors] : n \in 0..MaxAnchors}
Offsets == {<<0, 0>>, <<0, 5>>, <<3, 0>>, <<3, 5>>}
BaseActions == [class : {"LeftClick", "SendKeys"},
                target_name : {"None", "save_button"},
                target : {"Save"},
                anchors : AnchorSeqs,
                click_offset : Offsets]

\* The rendered string, kept as the sequence of the pieces concatenated.
CallPiece(class, target) == [piece |-> "call", class |-> class, target |-> target]
AnchorPiece(anchor) ==
    [piece |-> "anchor", relation |-> anchor.relation, value |-> anchor.value]
OffsetPiece(click_offset) ==
    [piece |-> "offset", x |-> click_offset[1], y |-> click_offset[2]]
DoPiece == [piece |-> "do"]

\* Variant of OffsetDiffers: only the x component is looked at.
OffsetDiffers_XOnly(click_offset) == click_offset[1] # 0

\* Line 120: action.click_offset != [0, 0]
OffsetDiffers(click_offset) == click_offset # <<0, 0>>

\* Lines 115-125
_format_action_string(action) ==
    <<CallPiece(action.class,
                IF Truthy(action.target_name) THEN action.target_name
                ELSE action.target)>>
        \o [k \in 1..Len(action.anchors) |-> AnchorPiece(action.anchors[k])]
        \o (IF OffsetDiffers(action.click_offset)
            THEN <<OffsetPiece(action.click_offset)>> ELSE <<>>)
        \o <<DoPiece>>

NoFormat == [pc |-> "idle", action |-> <<>>, action_string |-> <<>>]

InitFormat == fa = NoFormat

\* _format_action_string is called with an action.
format_action_string_Call ==
    /\ fa.pc = "idle"
    /\ \E action \in BaseActions :
        fa' = [NoFormat EXCEPT !.pc = "called", !.action = action]
    /\ UNCHANGED otherThanFormat

\* The string is built and returned.
format_action_string_Return ==
    /\ fa.pc = "called"
    /\ fa' = [fa EXCEPT !.pc = "returned",
                        !.action_string = _format_action_string(fa.action)]
    /\ UNCHANGED otherThanFormat

NextFormat ==
    \/ format_action_string_Call
    \/ format_action_string_Return

----------------------------------------------------------------------------
(* Specifications                                                          *)

Init == InitSession /\ InitActions /\ InitState /\ InitOperator /\ InitRecovery
        /\ InitOracle /\ InitFormat

SpecSession == Init /\ [][NextSession]_vars
SpecThreads == Init /\ [][NextThreads]_vars
SpecActions == Init /\ [][NextActions]_vars
SpecState == Init /\ [][NextState]_vars
SpecOperator == Init /\ [][NextOperator]_vars
SpecRecovery == Init /\ [][NextRecovery]_vars
SpecOracle == Init /\ [][NextOracle]_vars
SpecFormat == Init /\ [][NextFormat]_vars

\* The steps of create_issue_and_wait itself: the interpreter runs the call
\* on, and each request made is answered or fails.
OperatorStep ==
    \/ create_issue
    \/ while_deadline
    \/ get_issue_status
    \/ poll_sleep
    \/ resolve_issue

SpecOperatorLive == Init /\ [][NextOperator]_vars /\ WF_vars(OperatorStep)

----------------------------------------------------------------------------
(* Claims about the gui_automation wrapper (SpecSession)                   *)

Exited(r) == run[r].pc = "exit"

\* C1: every wrapper invocation whose transport reached Open has, when it
\* exits, made exactly one allocation and exactly one deallocation and left
\* its transport closed; an exception of the body is the one that reaches
\* the caller.
C1_OpenSessionReleased ==
    \A r \in Runs :
        (Exited(r) /\ run[r].reachedOpen) =>
            /\ run[r].allocCalls = 1
            /\ run[r].deallocCalls = 1
            /\ wsState[run[r].ws] = "CLOSED"
            /\ (run[r].bodyRaised => run[r].exc = "BodyError")

\* C2: every wrapper invocation whose connect attempt yields no Open
\* transport (connect returns a connection that is not open, or raises)
\* makes exactly one allocate and one deallocate call, fails with
\* WebSocketConnectionFailed and never invokes the body.
C2_FailedConnect ==
    \A r \in Runs :
        (run[r].connectCalls = 1 /\ ~run[r].reachedOpen) =>
            /\ run[r].allocCalls = 1
            /\ run[r].bodyCalls = 0
            /\ run[r].exc = "WebSocketConnectionFailed"
            /\ Exited(r) => run[r].deallocCalls = 1

----------------------------------------------------------------------------
(* Claims about try_actions (SpecActions)                                  *)

Finished == ta.pc \in {"returned", "raised"}

----------------------------------------------------------------------------
(* Claims about ensure_state_with_vision (SpecState)                       *)

ProducerCalledOnce == es.producerCalls = (IF es.callable THEN 1 ELSE 0)

\* C4: when the first verify_state result is Loading, ensure_state sleeps
\* for the given timeout, calls verify_state once more on the same States
\* value and returns true exactly when that second result is Expected; a
\* producer given for states is invoked exactly once.
C4_LoadingThenRecheck ==
    (/\ es.pc = "returned"
     /\ Len(es.results) >= 1
     /\ es.results[1] = "LoadingState") =>
        /\ es.sleeps = <<es.timeout>>
        /\ Len(es.verified) = 2
        /\ es.verified[2] = es.verified[1]
        /\ es.result <=> (es.results[2] = "ExpectedState")
        /\ ProducerCalledOnce

\* C5: when the first verify_state result is not Loading, ensure_state
\* makes exactly one verify_state call, never sleeps, and returns true for
\* an Expected result and false for every other variant.
C5_NotLoadingDecidesAtOnce ==
    (/\ es.pc = "returned"
     /\ Len(es.results) >= 1
     /\ es.results[1] # "LoadingState") =>
        /\ Len(es.verified) = 1
        /\ es.sleeps = <<>>
        /\ es.result <=> (es.results[1] = "ExpectedState")

C5_Witness ==
    /\ es.pc = "returned"
    /\ es.results = <<"CustomState">>
    /\ es.result = FALSE

----------------------------------------------------------------------------
(* Claims about create_issue_and_wait and its caller (SpecOperator)        *)

\* C6: once polling has observed a resolution chosen by the reviewer
\* (performed or raise) no resolve call is issued for the issue; the
\* 'timeout' resolve call is issued only after the deadline has expired.
C6_ResolutionSetOnce ==
    /\ op.observed \in {"performed", "raise"} => op.resolves = <<>>
    /\ op.resolves # <<>> => op.resolveAt >= op.resolution_deadline

\* C7: a status poll before the deadline that observes 'performed' makes
\* the call return true at once: no poll, sleep or resolve call follows.
C7_PerformedReturnsTrue ==
    op.observed = "performed" =>
        /\ op.pc = "returned"
        /\ op.result = "True"
        /\ op.lastPollAt < op.resolution_deadline
        /\ op.afterObserved = 0
        /\ op.resolves = <<>>

C7_Witness ==
    /\ op.observed = "performed"
    /\ op.pc = "returned"
    /\ op.result = "True"
    /\ op.polls >= 2

\* C8: a status poll before the deadline that observes 'raise' ends the
\* polling loop at once (no poll and no sleep follows) and the value the
\* call returns is false.
C8_RaiseLeavesLoop ==
    op.observed = "raise" =>
        /\ op.lastPollAt < op.resolution_deadline
        /\ op.afterObserved = 0
        /\ op.pc \in {"resolve", "returned", "raised"}
        /\ op.result # "True"
        /\ op.pc = "returned" => op.result = "False"

C8_Witness ==
    /\ op.observed = "raise"
    /\ op.pc = "returned"
    /\ op.result = "False"
    /\ op.now < op.resolution_deadline

\* The issue was created and no poll has observed a terminal resolution.
StillPending == issue.created /\ op.observed = "none"

\* C9: when every status poll up to the deadline reports a non-terminal
\* resolution, the call leaves the loop only once the deadline has passed,
\* issues exactly one resolve call, marking the issue 'timeout', and the
\* value it then returns is false.
C9_DeadlineResolvesTimeout ==
    StillPending =>
        /\ op.pc = "resolve" => (op.now >= op.resolution_deadline /\ op.resolves = <<>>)
        /\ op.resolves # <<>> =>
              /\ op.resolves = <<"timeout">>
              /\ op.resolveAt >= op.resolution_deadline
        /\ op.pc = "returned" =>
              /\ op.resolves = <<"timeout">>
              /\ op.result = "False"
        /\ op.result # "True"

C9_Witness ==
    /\ StillPending
    /\ op.pc = "returned"
    /\ op.polls >= 2
    /\ op.resolves = <<"timeout">>
    /\ op.result = "False"

\* C10: with USE_OPERATOR enabled, maybe_engage_operator_ui_action runs the
\* escalation and the boolean it returns decides: true suppresses the
\* original failure, false re-raises it.
C10_EscalationDecides ==
    (me.pc \in {"returned", "raised"} /\ strtobool(me.use_operator) = "True") =>
        /\ me.engaged
        /\ \/ me.operator_result = "True" /\ me.pc = "returned"
           \/ me.operator_result = "False" /\ me.pc = "raised" /\ me.exc = "original"

\* The escalation has left no trace: no issue, no poll, no resolve call.
NoEscalationTrace ==
    /\ op = NoOperator
    /\ issue = NoIssue

\* C11: with USE_OPERATOR disabled or unset, maybe_engage_operator_ui_action
\* re-raises the original failure at once: the escalation is not called, no
\* issue is created, no status is polled and no resolve call is made.
C11_DisabledReraises ==
    (me.pc # "idle" /\ me.use_operator \in {"unset", "false", "0"}) =>
        /\ me.pc = "raised"
        /\ me.exc = "original"
        /\ ~me.engaged
        /\ me.swallowed = "none"
        /\ NoEscalationTrace

C11_Witness ==
    /\ me.pc = "raised"
    /\ me.use_operator = "unset"
    /\ me.exc = "original"

----------------------------------------------------------------------------
(* Further claims about try_actions (SpecActions)                          *)

\* The actions executed so far are the first ones of the list, in order,
\* each once.
InListOrder ==
    /\ Len(ta.executed) <= Len(ta.actions)
    /\ \A k \in 1..Len(ta.executed) : ta.executed[k] = k

\* C12: try_actions attempts the actions strictly in list order and returns
\* at the first success: no action after the first successful one is
\* executed, and every action before it was executed exactly once and
\* failed.
C12_FirstSuccessReturns ==
    /\ InListOrder
    /\ \A k \in 1..Len(ta.executed) :
          /\ ta.actions[k] = "ok" =>
                (k = Len(ta.executed) /\ ta.pc = "returned")
          /\ k < Len(ta.executed) => ta.actions[k] \in DoErrors
    /\ ta.pc = "returned" =>
          /\ ta.executed # <<>>
          /\ ta.actions[Len(ta.executed)] = "ok"

C12_Witness ==
    /\ ta.pc = "returned"
    /\ ta.actions = <<"RuntimeError", "ok", "ok">>
    /\ ta.executed = <<1, 2>>

\* Every element was attempted once and failed with a failure the loop
\* recovers from (the empty list included).
AllFailedRecoverably ==
    /\ ta.executed = [k \in 1..Len(ta.actions) |-> k]
    /\ \A k \in 1..Len(ta.actions) : ta.actions[k] = "RuntimeError"

\* C13: try_actions fails with the aggregate 'All actions have failed'
\* error exactly when the list is exhausted without a success: for the
\* empty list and for a list whose every action was attempted once and
\* failed recoverably.
C13_AggregateErrorIffExhausted ==
    Finished =>
        ((ta.pc = "raised" /\ ta.exc = "AllActionsFailed") <=> AllFailedRecoverably)

C13_Witness ==
    /\ ta.pc = "raised"
    /\ ta.exc = "AllActionsFailed"
    /\ ta.actions = <<"RuntimeError", "RuntimeError">>
    /\ ta.executed = <<1, 2>>

\* The list given to try_actions holds an element that is no BaseAction.
HoldsInvalidElement ==
    \E k \in 1..Len(ta.actions) : ta.actions[k] = "notAction"

\* C14: a list holding an element that is no BaseAction, at any position,
\* makes try_actions fail with a TypeError before any action is executed.
C14_InvalidElementFailsFast ==
    (ta.pc # "idle" /\ HoldsInvalidElement) =>
        /\ ta.pc = "raised"
        /\ ta.exc = "TypeError"
        /\ ta.executed = <<>>

C14_Witness ==
    /\ ta.pc = "raised"
    /\ ta.exc = "TypeError"
    /\ ta.actions = <<"ok", "RuntimeError", "notAction">>
    /\ ta.executed = <<>>

----------------------------------------------------------------------------
(* Further claims about the gui_automation wrapper (SpecSession)           *)

\* C15: the wrapped body is invoked only after the device was allocated and
\* the transport reached Open, at most once per invocation, and when it is
\* entered the process-wide handle refers to the open connection this
\* invocation established.
C15_BodyAfterOpen ==
    \A r \in Runs :
        /\ run[r].bodyCalls <= 1
        /\ (run[r].pc = "body" \/ run[r].bodyCalls = 1) =>
              /\ run[r].allocCalls = 1
              /\ run[r].connectCalls = 1
              /\ run[r].reachedOpen
        /\ run[r].pc = "body" =>
              /\ r \in devices
              /\ global_ws # 0
              /\ global_ws = run[r].ws
              /\ wsState[global_ws] = "OPEN"
        /\ run[r].bodyCalls = 1 => run[r].bodyWs = run[r].ws

C15_Witness ==
    /\ run[1].pc = "exit"
    /\ run[2].pc = "finally"
    /\ run[2].bodyCalls = 1
    /\ run[2].bodyWs = 2

\* The device was allocated for invocation r.
Allocated(r) == run[r].allocCalls = 1 /\ run[r].exc # "AllocateError"

\* No invocation after r has started.
Latest(r) == \A q \in Runs : q > r => run[q].pc = "init"

\* C16: while the body executes PROC_ID equals the payload's instance id;
\* once the wrapper has exited after a successful allocation, by return or
\* by exception, PROC_ID is absent from the environment.
C16_ProcIdScoped ==
    \A r \in Runs :
        /\ run[r].pc = "body" => environ.PROC_ID = r
        /\ (Exited(r) /\ Allocated(r) /\ Latest(r)) => environ.PROC_ID = 0

C16_Witness ==
    /\ Exited(1)
    /\ Allocated(1)
    /\ run[1].bodyRaised
    /\ run[1].exc = "DeallocateError"
    /\ environ.PROC_ID = 0

----------------------------------------------------------------------------
(* Further claims about the state oracle (SpecState)                       *)

\* The candidates of the k-th verification that carry the reported id.
Matching(k) == {c \in es.verified[k] : IdOf(c) = es.reported[k].id}

\* C17: verify_state resolves the variant of its result by matching the id
\* the oracle reported against the ids of the candidates: with a candidate
\* of that id the result is of that candidate's class and carries the
\* oracle's description; with none the result is of the Expected variant.
C17_VariantById ==
    /\ Len(es.reported) = Len(es.results)
    /\ Len(es.described) = Len(es.results)
    /\ \A k \in 1..Len(es.results) :
        /\ Matching(k) # {} =>
              /\ es.results[k] \in Matching(k)
              /\ es.described[k] = es.reported[k].description
        /\ Matching(k) = {} => es.results[k] = "ExpectedState"

C17_Witness ==
    /\ es.pc = "returned"
    /\ Len(es.results) = 2
    /\ Matching(1) = {"LoadingState"}
    /\ es.results[1] = "LoadingState"
    /\ Matching(2) = {}
    /\ "ExpectedState" \notin es.verified[2]
    /\ es.results[2] = "ExpectedState"

\* The call of the example: candidates A and B, no response model given,
\* the oracle answers with id B.
DefaultCallAnsweredB ==
    /\ cs.pc = "returned"
    /\ cs.arg = "omitted"
    /\ DOMAIN cs.possible_states = {"A", "B"}
    /\ cs.state.id = "B"

\* C18: classify_state with the candidates {A: "desc A", B: "desc B"} and no
\* custom response model, the oracle answering B, yields the pair
\* ("B", "desc B"); a typed model is returned only when a custom response
\* model was supplied.
C18_DefaultYieldsPair ==
    /\ DefaultCallAnsweredB =>
          cs.result = [kind |-> "tuple", cls |-> "tuple",
                       id |-> "B", description |-> "desc B"]
    /\ (cs.pc = "returned" /\ cs.result.kind = "model") => cs.arg = "CustomState"

----------------------------------------------------------------------------
(* Further claims about create_issue_and_wait (SpecOperator)               *)

\* C19: when the create call yields no issue, create_issue_and_wait returns
\* False at once: no status poll, no sleep and no resolve call is made.
C19_NoIssueReturnsFalse ==
    op.issueValue = "None" =>
        /\ op.pc = "returned"
        /\ op.result = "False"
        /\ op.createTries = 1
        /\ op.polls = 0
        /\ op.sleeps = 0
        /\ op.resolves = <<>>
        /\ issue = NoIssue

C19_Witness ==
    /\ op.issueValue = "None"
    /\ op.caller = "direct"
    /\ op.pc = "returned"
    /\ op.result = "False"

\* The call has ended, by returning or by an exception.
Ended == op.pc \in {"returned", "raised"}

\* No poll starts at or after the deadline, polls and sleeps alternate, and a
\* call that returns gives True, or False after the timeout resolve (or
\* with no issue created); only a request that got no response raises.
WaitWithinDeadline ==
    /\ op.polls > 0 => op.lastPollAt < op.resolution_deadline
    /\ op.sleeps <= op.polls
    /\ op.polls <= op.sleeps + 1
    /\ op.now <= (IF op.resolution_deadline > 0 THEN op.resolution_deadline ELSE 0)
                     + 2 * MaxLatency
    /\ op.pc = "returned" =>
          \/ op.result = "True" /\ op.observed = "performed"
          \/ op.result = "False" /\ op.resolves = <<"timeout">>
          \/ op.result = "False" /\ op.issueValue = "None"
    /\ op.pc = "raised" => op.exc = "ConnectionError"

\* Every sleep of the loop lasts one second.
SleepsOneSecond == (op'.sleeps # op.sleeps) =>
                       (op'.sleeps = op.sleeps + 1 /\ op'.now = op.now + 1)

----------------------------------------------------------------------------
(* Claims about interleaved invocations of the wrapper (SpecThreads)       *)

\* Every invocation has exited and every device was released.
AllExitedCleanly ==
    \A r \in Runs : Exited(r) /\ run[r].exc \notin {"AllocateError", "DeallocateError"}

\* C21: the connection handle is not shared across concurrent runs: each
\* run's body and each run's cleanup use and close the transport that run
\* opened, so after both runs have exited both transports are closed and
\* neither run closed the other's.
C21_HandlePerRun ==
    /\ \A r \in Runs :
        /\ run[r].bodyCalls = 1 => run[r].bodyWs = run[r].ws
        /\ run[r].closeCalls = 1 => run[r].closedWs = run[r].ws
    /\ AllExitedCleanly => \A c \in Runs : wsState[c] # "OPEN"

----------------------------------------------------------------------------
(* Claims about the Recovery Controller (SpecRecovery)                     *)

\* The messages the call in progress, or the last call, added to the history.
Added == SubSeq(cc.messages, Len(cc.before) + 1, Len(cc.messages))

IsFeedbackMessage(m) == m.role = "user" /\ m.text \in Feedbacks

\* C22: reset_feedback clears the pending feedback, so that
\* get_latest_feedback returns none and the next turn appends no feedback
\* message, and it leaves the conversation history unchanged.
C22_ResetClearsFeedbackOnly ==
    /\ cc.lastOp = "reset_feedback" =>
          /\ get_latest_feedback(cc) = "None"
          /\ cc.messages = cc.before
    /\ (cc.sinceReset /\ cc.lastOp = "get_corrective_actions") =>
          \A k \in 1..Len(Added) : ~IsFeedbackMessage(Added[k])

C22_Witness ==
    /\ cc.sinceReset
    /\ cc.lastOp = "get_corrective_actions"
    /\ cc.turns = 2
    /\ cc.returned # <<>>
    /\ \E k \in 1..Len(cc.before) : IsFeedbackMessage(cc.before[k])

IsPrefix(s, t) == Len(s) <= Len(t) /\ SubSeq(t, 1, Len(s)) = s

\* C23: the conversation history grows monotonically: across every call of
\* get_corrective_actions, add_feedback and reset_feedback the history
\* before is a prefix of the history after.
C23_HistoryGrowsMonotonically == [][IsPrefix(cc.messages, cc.messages')]_vars

C23_Witness ==
    /\ cc.turns = MaxTurns
    /\ cc.pc = "ready"
    /\ cc.exc = "NetworkError"
    /\ cc.lastOp = "reset_feedback"
    /\ Len(cc.messages) >= 7
    /\ \E k \in 1..Len(cc.messages) : cc.messages[k].role = "ai"

Occurrences(m) == Cardinality({k \in 1..Len(cc.messages) : cc.messages[k] = m})

CustomGiven == cc.custom_instructions \notin {"None", ""}

\* C27: the history is seeded on the first turn only: it starts with the
\* system instruction, then the goal statement, then the custom
\* instructions message if and only if custom instructions were given; no
\* later turn appends a seed message, so each occurs exactly once.
C27_SeededOnce ==
    /\ (cc.lastOp = "get_corrective_actions" /\ cc.seeded) => cc.before = <<>>
    /\ cc.messages # <<>> =>
          /\ cc.messages[1] = SystemMessage("SYSTEM_PROMPT")
          /\ cc.messages[2] = UserMessage("goal")
          /\ Occurrences(SystemMessage("SYSTEM_PROMPT")) = 1
          /\ Occurrences(UserMessage("goal")) = 1
          /\ CustomGiven =>
                /\ cc.messages[3] = SystemMessage(cc.custom_instructions)
                /\ Occurrences(SystemMessage(cc.custom_instructions)) = 1
          /\ ~CustomGiven =>
                \A k \in 1..Len(cc.messages) :
                    cc.messages[k].role = "system" => k = 1

C27_Witness ==
    /\ cc.turns = 2
    /\ cc.lastOp = "get_corrective_actions"
    /\ ~cc.seeded
    /\ cc.returned # <<>>
    /\ CustomGiven
    /\ Len(cc.messages) = 7

\* The last call was a turn that returned.
TurnSucceeded ==
    /\ cc.lastOp = "get_corrective_actions"
    /\ cc.pc = "ready"
    /\ cc.exc = "none"

\* What a turn added after the seed, if it emitted one.
AddedAfterSeed ==
    LET seedLen == IF ~cc.seeded THEN 0 ELSE IF CustomGiven THEN 3 ELSE 2
    IN  SubSeq(Added, seedLen + 1, Len(Added))

\* C28: a successful turn appends, in this order, the pending feedback as a
\* user message (only if feedback is pending), the current screen message
\* and the oracle's response as an AI message; the oracle sees the history
\* including the new screen message, and one proposed action is returned.
C28_TurnAppendsInOrder ==
    TurnSucceeded =>
        /\ AddedAfterSeed =
              (IF cc.pendingAtCall \notin {"None", ""}
               THEN <<UserMessage(cc.pendingAtCall)>> ELSE <<>>)
                  \o <<UserMessage("Here is the observed screen:"),
                       AiMessage("action_string")>>
        /\ cc.sent = SubSeq(cc.messages, 1, Len(cc.messages) - 1)
        /\ Len(cc.returned) = 1

C28_Witness ==
    /\ TurnSucceeded
    /\ cc.turns = 2
    /\ cc.pendingAtCall = "the click missed"
    /\ cc.tries = 2
    /\ Len(AddedAfterSeed) = 3

----------------------------------------------------------------------------
(* Claims about the oracle call (SpecOracle)                               *)

\* find_target has ended, by returning or by an exception.
FindTargetEnded == oc.caller = "find_target" /\ oc.pc \in {"returned", "raised"}

TransientErrors == {"NetworkError", "InvalidJSONResponseError",
                    "ResponseValidationError", "MissingEnvironmentVariable"}

----------------------------------------------------------------------------
(* Claims about issue creation (SpecOperator)                              *)

\* The create step of create_issue_and_wait is over.
CreateOver == op.pc \notin {"idle", "create"}

----------------------------------------------------------------------------
(* Claims about _format_action_string (SpecFormat)                         *)

\* The positions of the rendered string that hold a piece of the given kind.
Positions(kind) ==
    {k \in 1..Len(fa.action_string) : fa.action_string[k].piece = kind}

\* C29: the rendered description of an action with no anchors has no anchor
\* suffix; with anchors it has one '.relation(value)' suffix per anchor, in
\* anchor order, after the target and before any offset suffix and the
\* final '.do()'; the offset suffix appears only when the offset is not
\* (0,0).
C29_AnchorSuffixesInOrder ==
    fa.pc = "returned" =>
        LET n == Len(fa.action.anchors)
            s == fa.action_string
        IN  /\ Positions("call") = {1}
            /\ Positions("anchor") = 2..(n + 1)
            /\ \A k \in 1..n :
                  /\ s[k + 1].relation = fa.action.anchors[k].relation
                  /\ s[k + 1].value = fa.action.anchors[k].value
            /\ Positions("do") = {Len(s)}
            /\ IF fa.action.click_offset = <<0, 0>>
               THEN Positions("offset") = {} /\ Len(s) = n + 2
               ELSE /\ Positions("offset") = {n + 2}
                    /\ Len(s) = n + 3
                    /\ s[n + 2].x = fa.action.click_offset[1]
                    /\ s[n + 2].y = fa.action.click_offset[2]

C29_Witness ==
    /\ fa.pc = "returned"
    /\ Len(fa.action.anchors) = 2
    /\ fa.action.anchors[1].relation = "below"
    /\ fa.action.anchors[2].relation = "left"
    /\ fa.action.click_offset = <<0, 5>>
    /\ Len(fa.action_string) = 5

----------------------------------------------------------------------------
(* Claims about a failed allocation (SpecSession)                          *)

\* C30: PROC_ID is published before the device allocation, and the
\* allocation is outside the guarded block: when it fails the wrapper exits
\* with that error, neither deallocation nor connect is attempted, and
\* PROC_ID stays set in the process-wide environment.
C30_FailedAllocationSkipsCleanup ==
    \A r \in Runs :
        /\ run[r].pc = "allocate" =>
              /\ environ.PROC_ID = r
              /\ run[r].allocCalls = 0
        /\ run[r].exc = "AllocateError" =>
              /\ run[r].pc = "exit"
              /\ run[r].allocCalls = 1
              /\ run[r].deallocCalls = 0
              /\ run[r].connectCalls = 0
              /\ run[r].bodyCalls = 0
              /\ run[r].closeCalls = 0
              /\ ~run[r].loopClosed
              /\ r \notin devices
              /\ Latest(r) => environ.PROC_ID = r

C30_Witness ==
    /\ run[1].pc = "exit"
    /\ run[1].exc = "none"
    /\ run[2].pc = "exit"
    /\ run[2].exc = "AllocateError"
    /\ environ.PROC_ID = 2

----------------------------------------------------------------------------
(* Claims about the wrapper's cleanup (SpecSession)                        *)

\* The cleanup steps come in the order PROC_ID, device, transport, loop, and
\* a failed deallocation ends the cleanup.
CleanupInOrder ==
    \A r \in Runs :
        /\ run[r].pc = "close" =>
              /\ run[r].deallocCalls = 1
              /\ r \notin devices
              /\ run[r].closeCalls = 0
              /\ Latest(r) => environ.PROC_ID = 0
        /\ run[r].closeCalls = 1 => run[r].deallocCalls = 1
        /\ run[r].loopClosed =>
              /\ run[r].deallocCalls = 1
              /\ run[r].exc # "DeallocateError"
        /\ run[r].exc = "DeallocateError" =>
              /\ run[r].pc = "exit"
              /\ run[r].closeCalls = 0
              /\ run[r].closedWs = 0
              /\ ~run[r].loopClosed
              /\ r \in devices
              /\ Latest(r) =>
                    /\ environ.PROC_ID = 0
                    /\ environ.REMOTE_DEVICE_ID = r
                    /\ environ.REMOTE_DEVICE_NAME = r

\* The failing deallocation touches no connection and overrides the error
\* the body raised.
FailedDeallocationStep ==
    \A r \in Runs :
        (run[r].pc = "finally" /\ run'[r].exc = "DeallocateError") =>
            /\ wsState' = wsState
            /\ global_ws' = global_ws
            /\ run'[r].bodyRaised = run[r].bodyRaised

\* C31: the cleanup runs in the fixed order clear PROC_ID, deallocate the
\* device, close the transport if Open, close the event loop, with no
\* isolation between the steps: the device is released while the transport
\* is still open, and a failed deallocation leaves the transport open, the
\* event loop unclosed and the REMOTE_DEVICE entries set, and its error
\* replaces any error of the body.
C31_CleanupOrderNoIsolation ==
    /\ []CleanupInOrder
    /\ [][FailedDeallocationStep]_vars

C31_Witness ==
    /\ run[1].pc = "exit"
    /\ run[1].exc = "DeallocateError"
    /\ run[1].bodyRaised
    /\ wsState[1] = "OPEN"
    /\ global_ws = 1
    /\ environ.REMOTE_DEVICE_ID = 1

----------------------------------------------------------------------------
(* Further claims about the Recovery Controller (SpecRecovery)             *)

\* Feedback is pending: add_feedback gave a non-empty text and neither
\* reset_feedback nor another add_feedback followed.
FeedbackPending == cc.latest_feedback \notin {"None", ""}

\* C32: a turn that consumes pending feedback does not clear it: the
\* feedback of one add_feedback call is appended again on every later turn
\* until reset_feedback or a new add_feedback, so k turns after a single
\* add_feedback put k copies of it in the history.
C32_FeedbackRepeatsEachTurn ==
    /\ (cc.lastOp = "get_corrective_actions" /\ cc.exc # "ScreenError") =>
          cc.latest_feedback = cc.pendingAtCall
    /\ FeedbackPending =>
          CountOf(cc.messages, UserMessage(cc.latest_feedback))
              = cc.copiesAtAdd + cc.turnsSinceAdd

C32_Witness ==
    /\ FeedbackPending
    /\ cc.turns = 3
    /\ cc.turnsSinceAdd = 3
    /\ cc.copiesAtAdd = 0
    /\ CountOf(cc.messages, UserMessage(cc.latest_feedback)) = 3

ScreenMessage == UserMessage("Here is the observed screen:")

\* The last call was a turn whose oracle call failed.
TurnFailedAtOracle ==
    /\ cc.lastOp = "get_corrective_actions"
    /\ cc.pc = "ready"
    /\ cc.exc \notin {"none", "ScreenError"}

\* After a failed turn the history ends with that turn's screen message.
FailedTurnKept ==
    TurnFailedAtOracle =>
        /\ Len(cc.messages) > Len(cc.before)
        /\ SubSeq(cc.messages, 1, Len(cc.before)) = cc.before
        /\ cc.messages = cc.sent
        /\ cc.messages[Len(cc.messages)] = ScreenMessage
        /\ \A k \in 1..Len(Added) : Added[k].role # "ai"
        /\ cc.returned = <<>>

\* The turn after a failed one appends behind what the failed one left.
NextTurnAppendsBehind ==
    (TurnFailedAtOracle /\ cc'.pc = "oracle") =>
        /\ SubSeq(cc'.messages, 1, Len(cc.messages)) = cc.messages
        /\ cc'.messages[Len(cc'.messages)] = ScreenMessage
        /\ \A k \in (Len(cc.messages) + 1)..Len(cc'.messages) :
              cc'.messages[k].role = "user"
        /\ ~FeedbackPending =>
              /\ Len(cc'.messages) = Len(cc.messages) + 1
              /\ cc'.messages[Len(cc.messages)] = ScreenMessage

\* C33: when the oracle call of a turn fails the history is not rolled back:
\* the seed, feedback and screen messages of the turn remain, no AI message
\* is appended, and the next turn appends a further screen message after
\* them, so that screen messages can follow one another with no response
\* between them.
C33_FailedTurnNotRolledBack ==
    /\ []FailedTurnKept
    /\ [][NextTurnAppendsBehind]_vars

C33_Witness ==
    /\ cc.pc = "oracle"
    /\ cc.turns = 2
    /\ Len(cc.messages) = 4
    /\ cc.messages[3] = ScreenMessage
    /\ cc.messages[4] = ScreenMessage

\* Within a turn: the history when an attempt is made is the history the
\* first attempt was given, and the turn's feedback and screen messages are
\* in it once.
AttemptsSeeOneHistory ==
    (cc.lastOp = "get_corrective_actions" /\ cc.tries >= 1) =>
        /\ cc.sent = SubSeq(cc.messages, 1, Len(cc.sent))
        /\ Len(cc.messages) - Len(cc.sent) = (IF cc.returned # <<>> THEN 1 ELSE 0)
        /\ CountOf(Added, ScreenMessage) = 1
        /\ cc.pendingAtCall \notin {"None", ""} =>
              CountOf(Added, UserMessage(cc.pendingAtCall)) = 1

\* A further attempt is handed what the attempt before it was handed.
RetrySendsSame ==
    (cc.pc = "oracle" /\ cc.tries >= 1 /\ cc'.tries = cc.tries + 1) =>
        /\ cc'.sent = cc.sent
        /\ cc.tries < 3

\* C34: retries of the oracle call within one turn do not change the
\* history: every attempt of the turn, up to 3, is sent the same message
\* sequence, and the feedback and screen messages of the turn are appended
\* exactly once however many attempts are made.
C34_RetriesShareHistory ==
    /\ []AttemptsSeeOneHistory
    /\ [][RetrySendsSame]_vars

C34_Witness ==
    /\ cc.lastOp = "get_corrective_actions"
    /\ cc.tries = 3
    /\ cc.returned # <<>>
    /\ cc.pendingAtCall = "the click missed"
    /\ CountOf(Added, ScreenMessage) = 1

----------------------------------------------------------------------------
(* Further claims about ensure_state_with_vision (SpecState)               *)

\* C35: ensure_state_with_vision returns True whenever the id the oracle
\* reports first matches none of the candidates, the unmatched id being
\* sorted into the Expected variant; a True result therefore does not imply
\* that the oracle reported the id of the registered Expected state.
C35_UnmatchedIdReturnsTrue ==
    (Len(es.results) >= 1 /\ Matching(1) = {}) =>
        /\ es.results[1] = "ExpectedState"
        /\ es.pc = "returned"
        /\ es.result = TRUE
        /\ Len(es.results) = 1
        /\ es.sleeps = <<>>

C35_Witness ==
    /\ es.pc = "returned"
    /\ es.result = TRUE
    /\ "ExpectedState" \in es.states
    /\ es.reported[1].id = "unknown"
    /\ es.reported[1].id # IdOf("ExpectedState")

----------------------------------------------------------------------------
(* Further claims about try_actions (SpecActions)                          *)

\* C36: an AssertionError raised by an action's do() is not a failed
\* attempt: it ends the call at once, later actions are not attempted, and
\* it is reported as the TypeError of invalid actions; a TypeError therefore
\* does not imply a non-conforming element or that nothing was executed.
C36_AssertionInDoBecomesTypeError ==
    \A k \in 1..Len(ta.executed) :
        ta.actions[ta.executed[k]] = "AssertionError" =>
            /\ k = Len(ta.executed)
            /\ ta.pc = "raised"
            /\ ta.exc = "TypeError"

C36_Witness ==
    /\ ta.pc = "raised"
    /\ ta.exc = "TypeError"
    /\ ta.actions = <<"RuntimeError", "AssertionError", "ok">>
    /\ ta.executed = <<1, 2>>
    /\ ~HoldsInvalidElement

----------------------------------------------------------------------------
(* Further claims about the operator escalation (SpecOperator)             *)

\* C37: with USE_OPERATOR enabled, an exception of the escalation call is
\* swallowed and the original action failure is raised again; on every path
\* maybe_engage_operator_ui_action either returns normally, only after the
\* escalation returned true, or raises exactly the original failure.
C37_OnlyOriginalFailureRaised ==
    /\ me.swallowed # "none" => (me.pc = "raised" /\ me.exc = "original")
    /\ me.pc = "returned" => me.operator_result = "True"
    /\ me.pc = "raised" => me.exc = "original"

\* The status the last poll gave counts as still pending.
StillPendingStatus == op.lastStatus \in {"None", "pending", "timeout"}

\* A poll that gives such a status is followed by the sleep, the sleep by the
\* loop test one second later, and the loop test before the deadline by a poll.
PendingPollsAgain ==
    /\ (op.pc = "poll" /\ op' # op /\ op'.pc # "raised"
            /\ op'.lastStatus \notin {"performed", "raise"}) =>
          op'.pc = "sleep"
    /\ (op.pc = "sleep" /\ op' # op) =>
          (op'.pc = "while" /\ op'.now = op.now + 1)
    /\ (op.pc = "while" /\ op' # op /\ op.now < op.resolution_deadline) =>
          op'.pc = "poll"

\* While only such statuses were seen, the wait has not ended before the
\* deadline.
PendingNeverEndsWait ==
    (op.polls > 0 /\ StillPendingStatus /\ op.observed = "none") =>
        /\ op.pc \in {"sleep", "while", "poll", "resolve", "returned", "raised"}
        /\ op.pc = "resolve" => op.now >= op.resolution_deadline
        /\ op.pc = "returned" =>
              /\ op.result = "False"
              /\ op.resolveAt >= op.resolution_deadline
        /\ (op.pc = "raised" /\ op.resolves # <<>>) =>
              op.resolveAt >= op.resolution_deadline

\* C38: during polling, a status request that yields no resource and a
\* status whose resolution is neither 'performed' nor 'raise' both count as
\* still pending: the loop sleeps 1 second and polls again, and such
\* responses alone never end the wait before the deadline.
C38_PendingKeepsPolling ==
    /\ []PendingNeverEndsWait
    /\ [][PendingPollsAgain]_vars

C38_Witness ==
    /\ op.pc = "returned"
    /\ op.result = "False"
    /\ op.timeout_mins = 1
    /\ op.polls = SecondsPerMinute
    /\ op.lastStatus = "None"
    /\ op.observed = "none"
    /\ op.resolves = <<"timeout">>

\* C39: with timeout_mins <= 0 and the issue created, create_issue_and_wait
\* makes no status poll: it issues the 'timeout' resolve call at once and
\* returns False, so a resolution the reviewer has set is never observed.
C39_NonPositiveTimeoutNeverPolls ==
    (op.timeout_mins <= 0 /\ op.issueValue = "resource") =>
        /\ op.pc \in {"while", "resolve", "returned", "raised"}
        /\ op.polls = 0
        /\ op.sleeps = 0
        /\ op.observed = "none"
        /\ op.lastStatus = "none"
        /\ op.pc = "returned" =>
              /\ op.result = "False"
              /\ op.resolves = <<"timeout">>
        /\ op.pc = "raised" =>
              /\ op.exc = "ConnectionError"
              /\ op.resolves = <<"timeout">>

C39_Witness ==
    /\ op.timeout_mins = 0
    /\ op.pc = "returned"
    /\ op.result = "False"
    /\ issue.resolution = "performed"
    /\ issue.resolveRequests = <<"timeout">>
    /\ op.polls = 0

====
